---- MODULE Spec2Model ----
(***************************************************************************)
(* Autonomous agent core of src/autonomous_agent_framework.py:             *)
(* AgentGoal / AgentTask entities, the AutonomousAgent run loop with its   *)
(* priority queue, retry logic, learning update and error recovery, and    *)
(* the AgentOrchestrator fleet operations.                                 *)
(*                                                                         *)
(* The program is an asyncio program: coroutines interleave only where one *)
(* really suspends.  The run loop suspends at asyncio.sleep(1) (line 211)  *)
(* and inside execute_single_task (asyncio.sleep(0.1), line 319).  Awaits  *)
(* of coroutines that do not suspend (add_task, update_state, shutdown,    *)
(* ...) run without yielding.  pc records where the run loop stands; the   *)
(* operations of callers are enabled only while the loop is suspended.     *)
(***************************************************************************)
EXTENDS Integers, Sequences, FiniteSets, TLC

VARIABLES
    state,            \* AutonomousAgent.state
    goals,            \* AutonomousAgent.goals
    task_queue,       \* AutonomousAgent.task_queue
    completed_tasks,  \* AutonomousAgent.completed_tasks
    learning_memory,  \* AutonomousAgent.learning_memory
    metrics,          \* AutonomousAgent.metrics
    decision_threshold, \* AutonomousAgent.decision_threshold, a rational <<n, d>>
    is_running,       \* AutonomousAgent.is_running
    pc,               \* position of the run() coroutine
    task,             \* local variable task of execute_tasks while it is suspended
    next_id,          \* number of uuid4 ids drawn so far (tasks and goals)
    add_seq,          \* history: number of add_task calls so far
    last_outcome,     \* history: how the last execute_tasks call ended
    learned_at,       \* history: len(completed_tasks) at the last learn_from_experience
    oversight,        \* history: the should_request_human_input call of this iteration
    iter_start,       \* history: what the iteration under way found when it started
    events,           \* bound: ids drawn by callers' add_task and set_goal calls, and
                      \* failures raised in the loop, so far
    limit,            \* bound: the value events may reach in this behaviour
    ep_goal,          \* the AgentGoal a caller evaluates
    ep_metrics,       \* the metrics mapping the caller passes to evaluate_progress
    ep_result,        \* what the call gave: None before it, else <<[raised, value]>>
    memories,         \* learning_memory of each of several collaborating agents
    received,         \* history: the last receive_knowledge call, and the senders of
                      \* the calls to the same receiver just before it
    fleet,            \* the AutonomousAgent objects an orchestrator has constructed
    agents,           \* AgentOrchestrator.agents: agent id -> object
    agent_pools,      \* AgentOrchestrator.agent_pools: agent type -> list of objects
    last_scale,       \* history: the scale_fleet call that was the last fleet operation
    last_deploy       \* history: the deploy_agent call of a caller that was the last one

agentVars == <<state, goals, task_queue, completed_tasks, learning_memory, metrics,
               decision_threshold, is_running, pc, task, next_id, add_seq,
               last_outcome, learned_at, oversight, iter_start, events, limit>>
progressVars == <<ep_goal, ep_metrics, ep_result>>
knowledgeVars == <<memories, received>>
fleetVars == <<fleet, agents, agent_pools, last_scale, last_deploy>>
others == <<progressVars, knowledgeVars, fleetVars>>
vars == <<agentVars, others>>

(***************************************************************************)
(* Bounds of the model.                                                    *)
(***************************************************************************)
MaxEvents == 2        \* Spec: tasks and goals created by callers, and loop failures
MaxQueueEvents == 3   \* SpecQueue: tasks created by callers
MaxGoalEvents == 5    \* SpecGoal: tasks and goals created by callers
MaxMetric == 2        \* SpecProgress: numeric metrics are 0..MaxMetric
MaxValue == 3         \* SpecKnowledge: values of learning_memory are 1..MaxValue
MaxTarget == 3        \* SpecFleet: fleet sizes asked of the orchestrator
MaxConstructed == 3   \* SpecFleet: agents the orchestrator constructs
MaxDeployed == 3      \* SpecDeploy: agents the callers construct
MaxOversightEvents == 1   \* SpecOversight: tasks created by callers
MaxLearnEvents == 1       \* SpecLearn: tasks created by callers
MaxShrink == 2            \* SpecLearn: decision_threshold is followed down to 1/MaxShrink
MaxInitFailed == 3        \* SpecLearn: failed tasks among the InitCompleted first ones

(***************************************************************************)
(* Program constants.                                                      *)
(***************************************************************************)
CRITICAL == 1
HIGH == 2
NORMAL == 3
LOW == 4
BACKGROUND == 5
Priorities == {CRITICAL, HIGH, NORMAL, LOW, BACKGROUND}
DefaultMaxRetries == 3
DefaultMaxAutonomousDays == 7     \* config.get("max_autonomous_days", 7)
LearnEvery == 10
InitCompleted == LearnEvery - 1 \* the warm initial state is one task short of a batch
NoTime == 0                     \* scheduled_time = None
NoGoal == 0                     \* goal_id = ""
DatetimeMax == 9                \* datetime.max: later than every scheduled time
MaxIds == 4 * (MaxEvents + MaxQueueEvents + MaxGoalEvents)   \* no behaviour draws more ids
None == <<>>                    \* an Optional value is <<>> (None) or <<v>>
Some(v) == <<v>>

AgentStates == {"INITIALIZING", "IDLE", "PLANNING", "EXECUTING", "LEARNING",
                "COLLABORATING", "PAUSED", "ERROR"}

(***************************************************************************)
(* Strings are sequences of characters, so that lower() and the substring  *)
(* test of decompose_goal are computed and not assumed.                    *)
(***************************************************************************)
Lower(c) ==
    CASE c = "O" -> "o" [] c = "P" -> "p" [] c = "T" -> "t" [] c = "I" -> "i"
      [] c = "M" -> "m" [] c = "Z" -> "z" [] c = "E" -> "e" [] c = "A" -> "a"
      [] c = "L" -> "l" [] OTHER -> c

LowerStr(s) == [i \in 1..Len(s) |-> Lower(s[i])]

Contains(s, w) ==
    \E i \in 0..(Len(s) - Len(w)) : \A j \in 1..Len(w) : s[i + j] = w[j]

Keyword == <<"o", "p", "t", "i", "m", "i", "z", "e">>

\* "Optimize", "xOPTIMIZE", "optimal"
Descriptions ==
    { <<"O", "p", "t", "i", "m", "i", "z", "e">>,
      <<"x", "O", "P", "T", "I", "M", "I", "Z", "E">>,
      <<"o", "p", "t", "i", "m", "a", "l">> }

(***************************************************************************)
(* Values of success criteria and metrics: a number or a non-number.       *)
(***************************************************************************)
Num(v) == [kind |-> "num", v |-> v]
Str(v) == [kind |-> "str", v |-> v]

Zero == <<0, 1>>                 \* the float 0.0 as a fraction

(***************************************************************************)
(* AgentGoal.evaluate_progress.  The result is the fraction                *)
(* <<met, total>>, or a raised TypeError: line 67 compares the metric with *)
(* >= whenever the TARGET is a number, whatever the metric is.             *)
(***************************************************************************)
RECURSIVE CountMet(_, _, _)
CountMet(keys, criteria, m) ==
    IF keys = {} THEN 0
    ELSE LET criterion == CHOOSE k \in keys : TRUE
             target == criteria[criterion]
             met == IF criterion \in DOMAIN m
                    THEN IF target.kind = "num"
                         THEN m[criterion].v >= target.v
                         ELSE m[criterion] = target
                    ELSE FALSE
         IN  (IF met THEN 1 ELSE 0) + CountMet(keys \ {criterion}, criteria, m)

Raises(criteria, m) ==
    \E criterion \in DOMAIN criteria :
        /\ criterion \in DOMAIN m
        /\ criteria[criterion].kind = "num"
        /\ m[criterion].kind # "num"

evaluate_progress(criteria, m) ==
    IF DOMAIN criteria = {}
    THEN [raised |-> FALSE, value |-> Zero]
    ELSE IF Raises(criteria, m)
         THEN [raised |-> TRUE, value |-> Zero]
         ELSE [raised |-> FALSE,
               value |-> <<CountMet(DOMAIN criteria, criteria, m),
                           Cardinality(DOMAIN criteria)>>]

(***************************************************************************)
(* AgentTask and AgentGoal records.  execs and seq are history fields:     *)
(* the number of times the task was handed to its handler, and the stamp   *)
(* of the add_task call that put it in the queue.                          *)
(***************************************************************************)
AgentTask(id, goal_id, action, priority, scheduled_time, max_retries) ==
    [id |-> id, goal_id |-> goal_id, action |-> action, priority |-> priority,
     scheduled_time |-> scheduled_time, max_retries |-> max_retries,
     retry_count |-> 0, completed |-> FALSE, result |-> None, error |-> None,
     execs |-> 0, seq |-> 0]

AgentGoal(id, description, success_criteria) ==
    [id |-> id, description |-> description, success_criteria |-> success_criteria,
     progress |-> Zero, completed |-> FALSE]

(***************************************************************************)
(* The sort key of add_task and the stable sort list.sort performs.        *)
(***************************************************************************)
SortKey(t) ==
    <<t.priority, IF t.scheduled_time # NoTime THEN t.scheduled_time ELSE DatetimeMax>>

KeyLess(a, b) ==
    \/ SortKey(a)[1] < SortKey(b)[1]
    \/ SortKey(a)[1] = SortKey(b)[1] /\ SortKey(a)[2] < SortKey(b)[2]

\* an insertion that is not stable: t goes before the elements of equal key
RECURSIVE InsertUnstable(_, _)
InsertUnstable(s, t) ==
    IF s = <<>> THEN <<t>>
    ELSE IF ~KeyLess(Head(s), t) THEN <<t>> \o s
         ELSE <<Head(s)>> \o InsertUnstable(Tail(s), t)

\* t placed in the sorted list s before the first element whose key is greater
RECURSIVE InsertStable(_, _)
InsertStable(s, t) ==
    IF s = <<>> THEN <<t>>
    ELSE IF KeyLess(t, Head(s)) THEN <<t>> \o s
         ELSE <<Head(s)>> \o InsertStable(Tail(s), t)

RECURSIVE StableSort(_)
StableSort(s) ==
    IF s = <<>> THEN <<>>
    ELSE InsertStable(StableSort(SubSeq(s, 1, Len(s) - 1)), s[Len(s)])

add_task(queue, t, stamp) == StableSort(Append(queue, [t EXCEPT !.seq = stamp]))

(***************************************************************************)
(* decompose_goal: three tasks when the lowered description contains the   *)
(* keyword, none otherwise.  ids are the uuid4 values drawn, first + 0..2. *)
(***************************************************************************)
decompose_goal_CaseSensitive(goal, first) ==
    IF Contains(goal.description, Keyword)
    THEN << AgentTask(first, goal.id, "analyze_current_state", HIGH, NoTime, DefaultMaxRetries),
            AgentTask(first + 1, goal.id, "identify_bottlenecks", HIGH, NoTime, DefaultMaxRetries),
            AgentTask(first + 2, goal.id, "implement_optimizations", NORMAL, NoTime, DefaultMaxRetries) >>
    ELSE <<>>

decompose_goal(goal, first) ==
    IF Contains(LowerStr(goal.description), Keyword)
    THEN << AgentTask(first, goal.id, "analyze_current_state", HIGH, NoTime, DefaultMaxRetries),
            AgentTask(first + 1, goal.id, "identify_bottlenecks", HIGH, NoTime, DefaultMaxRetries),
            AgentTask(first + 2, goal.id, "implement_optimizations", NORMAL, NoTime, DefaultMaxRetries) >>
    ELSE <<>>

\* for task in tasks: await self.add_task(task)
RECURSIVE AddAll(_, _, _)
AddAll(queue, tasks, stamp) ==
    IF tasks = <<>> THEN queue
    ELSE AddAll(add_task(queue, Head(tasks), stamp + 1), Tail(tasks), stamp + 1)

(***************************************************************************)
(* Inputs.                                                                 *)
(***************************************************************************)
\* str(e) of the exception a handler raises: "" (Exception()) or "E:x"
ErrorMessages == { <<>>, <<"E", ":", "x">> }

\* success criteria a caller gives a goal of the agent
CriteriaIn ==
    { [k \in {} |-> Num(0)],
      [k \in {"tasks_completed"} |-> Num(1)] }

\* decision_threshold of the config: the default 0.8
ThresholdsIn == { <<4, 5>> }

Truthy(opt) == opt # None /\ opt[1] # <<>>       \* bool(Optional[str])

(***************************************************************************)
(* Initial states: a freshly constructed agent (lines 97-116), or a        *)
(* deployed agent asleep between two iterations that has completed         *)
(* InitCompleted tasks given to it by add_task, each at its first try.     *)
(***************************************************************************)
DoneTask(i) ==
    [AgentTask(i - InitCompleted, NoGoal, "custom", NORMAL, NoTime, DefaultMaxRetries)
        EXCEPT !.completed = TRUE, !.result = Some("completed"), !.execs = 1, !.seq = i]

NoMemory == [k \in {} |-> None]

InitCold ==
    /\ state = "INITIALIZING"
    /\ goals = <<>>
    /\ task_queue = <<>>
    /\ completed_tasks = <<>>
    /\ learning_memory = NoMemory
    /\ metrics = [tasks_completed |-> 0, goals_achieved |-> 0, decisions_made |-> 0,
                  errors_recovered |-> 0, value_generated |-> 0]
    /\ decision_threshold = None
    /\ is_running = FALSE
    /\ pc = "new"
    /\ task = None
    /\ next_id = 0
    /\ add_seq = 0
    /\ last_outcome = "none"
    /\ learned_at = 0
    /\ oversight = None
    /\ iter_start = None
    /\ events = 0
    /\ limit = MaxEvents

InitWarm ==
    /\ state = "IDLE"
    /\ goals = <<>>
    /\ task_queue = <<>>
    /\ completed_tasks = [i \in 1..InitCompleted |-> DoneTask(i)]
    /\ learning_memory = NoMemory
    /\ metrics = [tasks_completed |-> InitCompleted, goals_achieved |-> 0,
                  decisions_made |-> 0, errors_recovered |-> 0,
                  value_generated |-> InitCompleted * 100]
    /\ decision_threshold \in ThresholdsIn
    /\ is_running = TRUE
    /\ pc = "sleep"
    /\ task = None
    /\ next_id = 0
    /\ add_seq = InitCompleted
    /\ last_outcome = "none"
    /\ learned_at = 0
    /\ oversight = None
    /\ iter_start = None
    /\ events = 0
    /\ limit = MaxEvents

\* nothing but the agent exists: no caller of evaluate_progress, no
\* collaborating agents, an orchestrator that has deployed nothing
NoProgress == ep_goal = None /\ ep_metrics = None /\ ep_result = None
NoKnowledge == memories = <<>> /\ received = None
NoFleet ==
    /\ fleet = <<>> /\ agents = NoMemory /\ agent_pools = NoMemory
    /\ last_scale = None /\ last_deploy = None
AgentOnly == NoProgress /\ NoKnowledge /\ NoFleet

Init == (InitCold \/ InitWarm) /\ AgentOnly

\* the same fresh agent, its budget left to the specification
InitFresh ==
    /\ state = "INITIALIZING"
    /\ goals = <<>>
    /\ task_queue = <<>>
    /\ completed_tasks = <<>>
    /\ learning_memory = NoMemory
    /\ metrics = [tasks_completed |-> 0, goals_achieved |-> 0, decisions_made |-> 0,
                  errors_recovered |-> 0, value_generated |-> 0]
    /\ decision_threshold = None
    /\ is_running = FALSE
    /\ pc = "new"
    /\ task = None
    /\ next_id = 0
    /\ add_seq = 0
    /\ last_outcome = "none"
    /\ learned_at = 0
    /\ oversight = None
    /\ iter_start = None
    /\ events = 0

\* the run() coroutine is not executing: other coroutines may run
Suspended == pc \in {"new", "scheduled", "inflight", "sleep", "exited"}

(***************************************************************************)
(* Operations of callers on the agent.                                     *)
(***************************************************************************)
\* AgentOrchestrator.deploy_agent for this agent: initialize, then
\* asyncio.create_task(agent.run()); run() starts at a later turn of the loop.
initialize(threshold) ==
    /\ decision_threshold' = threshold
    /\ state' = "IDLE"

deploy_agent ==
    /\ pc = "new"
    /\ \E threshold \in ThresholdsIn : initialize(threshold)
    /\ pc' = "scheduled"
    /\ UNCHANGED <<goals, task_queue, completed_tasks, learning_memory, metrics,
                   is_running, task, next_id, add_seq, last_outcome,
                   events, limit, learned_at, oversight, iter_start, others>>

\* a caller's await agent.add_task(AgentTask(...)) with a fresh task whose
\* <<priority, scheduled_time, max_retries>> is drawn from V
AddTaskIn(V) ==
    /\ Suspended
    /\ events < limit
    /\ events' = events + 1
    /\ \E v \in V :
          task_queue' = add_task(task_queue,
                                 AgentTask(next_id + 1, NoGoal, "custom", v[1], v[2], v[3]),
                                 add_seq + 1)
    /\ next_id' = next_id + 1
    /\ add_seq' = add_seq + 1
    /\ UNCHANGED <<state, goals, completed_tasks, learning_memory, metrics,
                   decision_threshold, is_running, pc, task, last_outcome, limit, learned_at, oversight, iter_start, others>>

\* Spec: tasks differ in their retry budget
AddTask == AddTaskIn({NORMAL} \X {NoTime} \X {0, 1, 2})

\* SpecQueue: tasks differ in priority and scheduled time; one kind can be retried
AddTaskQ ==
    AddTaskIn({ <<CRITICAL, NoTime, 1>>, <<NORMAL, NoTime, 2>>, <<LOW, NoTime, 1>>,
                <<NORMAL, 1, 1>>, <<NORMAL, 2, 1>> })

\* set_goal: append the goal, decompose it, add_task each task
set_goal(goal) ==
    LET tasks == decompose_goal(goal, next_id + 2)
    IN  /\ goals' = Append(goals, goal)
        /\ task_queue' = AddAll(task_queue, tasks, add_seq)
        /\ next_id' = next_id + 1 + Len(tasks)
        /\ add_seq' = add_seq + Len(tasks)

\* a caller's await agent.set_goal(AgentGoal(...)) with a fresh goal
SetGoalIn(D, C) ==
    /\ Suspended
    /\ \E description \in D, criteria \in C :
          set_goal(AgentGoal(next_id + 1, description, criteria))
    /\ events' = events + (next_id' - next_id)
    /\ events' <= limit
    /\ UNCHANGED <<state, completed_tasks, learning_memory, metrics,
                   decision_threshold, is_running, pc, task, last_outcome, limit, learned_at, oversight, iter_start, others>>

\* Spec: goals that decompose into no task
SetGoal == SetGoalIn({ <<"o", "p", "t", "i", "m", "a", "l">> }, CriteriaIn)

\* SpecGoal: every description
SetGoalG == SetGoalIn(Descriptions, { [k \in {"tasks_completed"} |-> Num(1)] })

\* SpecGoal: tasks of the caller around those of the goal
AddTaskG ==
    AddTaskIn({ <<CRITICAL, NoTime, 1>>, <<HIGH, NoTime, 1>> })

\* shutdown: is_running = False (save_state writes a file and changes nothing)
shutdown ==
    /\ is_running' = FALSE

Shutdown ==
    /\ Suspended
    /\ pc # "new"
    /\ shutdown
    /\ UNCHANGED <<state, goals, task_queue, completed_tasks, learning_memory,
                   metrics, decision_threshold, pc, task, next_id, add_seq,
                   last_outcome, events, limit, learned_at, oversight, iter_start, others>>

(***************************************************************************)
(* The run loop, lines 177-216.                                            *)
(***************************************************************************)
\* line 179: run() starts and sets is_running
RunStart ==
    /\ pc = "scheduled"
    /\ is_running' = TRUE
    /\ pc' = "top"
    /\ UNCHANGED <<state, goals, task_queue, completed_tasks, learning_memory,
                   metrics, decision_threshold, task, next_id, add_seq,
                   last_outcome, events, limit, learned_at, oversight, iter_start, others>>

\* history: the number of times execute_tasks has popped one of the tasks the
\* agent holds (execs counts the pops of a task)
RECURSIVE SumExecs(_)
SumExecs(ts) == IF ts = <<>> THEN 0 ELSE Head(ts).execs + SumExecs(Tail(ts))

Dequeues ==
    SumExecs(task_queue) + SumExecs(completed_tasks) + SumExecs(task)

\* line 182: while self.is_running, after the sleep or right after a recovery
LoopTop ==
    /\ pc \in {"top", "sleep"}
    /\ pc' = IF is_running THEN "oversight" ELSE "exited"
    /\ oversight' = None
    /\ iter_start' = IF is_running
                     THEN Some([state |-> state, queued |-> Len(task_queue),
                                dequeues |-> Dequeues])
                     ELSE iter_start
    /\ UNCHANGED <<state, goals, task_queue, completed_tasks, learning_memory,
                   metrics, decision_threshold, is_running, task, next_id, add_seq,
                   last_outcome, events, limit, learned_at, others>>

\* exact arithmetic on fractions <<n, d>>, d > 0
RECURSIVE Gcd(_, _)
Gcd(a, b) == IF b = 0 THEN a ELSE Gcd(b, a % b)
Frac(n, d) == IF n = 0 THEN <<0, 1>> ELSE <<n \div Gcd(n, d), d \div Gcd(n, d)>>
FracMul(x, y) == Frac(x[1] * y[1], x[2] * y[2])
FracLess(x, y) == x[1] * y[2] < y[1] * x[2]
FracMin(x, y) == IF FracLess(y, x) THEN y ELSE x

\* request_human_oversight: the state, and last_human_interaction = now
request_human_oversight ==
    /\ state' = "PAUSED"

\* a check that asks for oversight at a confidence equal to the threshold too
should_request_human_input_AtThreshold(days, max_days, confidence, error_rate, threshold) ==
    IF days > max_days THEN TRUE
    ELSE IF confidence # None /\ ~FracLess(threshold, confidence[1]) THEN TRUE
    ELSE IF FracLess(<<1, 10>>, error_rate) THEN TRUE
    ELSE FALSE

\* should_request_human_input.  days is the time from last_human_interaction to
\* now, in days, confidence the attribute last_decision_confidence
\* (None when hasattr is false: the class never sets it, a subclass may),
\* error_rate the value of metrics.get("error_rate", 0).
should_request_human_input(days, max_days, confidence, error_rate, threshold) ==
    IF days > max_days THEN TRUE
    ELSE IF confidence # None /\ FracLess(confidence[1], threshold) THEN TRUE
    ELSE IF FracLess(<<1, 10>>, error_rate) THEN TRUE
    ELSE FALSE

\* lines 185-186, with <<days, confidence, error_rate>> drawn from B
OversightIn(B) ==
    /\ pc = "oversight"
    /\ \E b \in B :
          LET requested == should_request_human_input(b[1], DefaultMaxAutonomousDays,
                                                      b[2], b[3], decision_threshold)
          IN  /\ IF requested THEN request_human_oversight ELSE UNCHANGED state
              /\ oversight' = Some([days |-> b[1], confidence |-> b[2],
                                    error_rate |-> b[3], requested |-> requested])
    /\ pc' = "update"
    /\ UNCHANGED <<goals, task_queue, completed_tasks, learning_memory, metrics,
                   decision_threshold, is_running, task, next_id, add_seq,
                   last_outcome, events, limit, learned_at, iter_start, others>>

\* Spec: an agent of the class itself, within its autonomous window or past it
Oversight == OversightIn({DefaultMaxAutonomousDays, DefaultMaxAutonomousDays + 1}
                         \X {None} \X {<<0, 1>>})

\* SpecQueue: the agent stays within its autonomous window
OversightNotDue == OversightIn({<<0, None, <<0, 1>>>>})

should_learn ==
    Len(completed_tasks) % LearnEvery = 0 /\ Len(completed_tasks) > 0

\* an update_state that looks at the learning condition first
update_state_LearnsFirst ==
    IF state = "ERROR" THEN UNCHANGED state
    ELSE IF should_learn THEN state' = "LEARNING"
    ELSE IF task_queue # <<>> /\ state = "IDLE" THEN state' = "PLANNING"
    ELSE IF task_queue = <<>> /\ goals # <<>> THEN state' = "PLANNING"
    ELSE UNCHANGED state

\* an update_state that resumes a paused agent that has tasks
update_state_ResumesPaused ==
    IF state = "ERROR" THEN UNCHANGED state
    ELSE IF task_queue # <<>> /\ state \in {"IDLE", "PAUSED"} THEN state' = "PLANNING"
    ELSE IF task_queue = <<>> /\ goals # <<>> THEN state' = "PLANNING"
    ELSE IF should_learn THEN state' = "LEARNING"
    ELSE UNCHANGED state

\* an update_state that plans for a queue only, and leaves an idle agent with goals idle
update_state_IgnoresGoals ==
    IF state = "ERROR" THEN UNCHANGED state
    ELSE IF task_queue # <<>> /\ state = "IDLE" THEN state' = "PLANNING"
    ELSE IF should_learn THEN state' = "LEARNING"
    ELSE UNCHANGED state

update_state ==
    IF state = "ERROR" THEN UNCHANGED state
    ELSE IF task_queue # <<>> /\ state = "IDLE" THEN state' = "PLANNING"
    ELSE IF task_queue = <<>> /\ goals # <<>> THEN state' = "PLANNING"
    ELSE IF should_learn THEN state' = "LEARNING"
    ELSE UNCHANGED state

UpdateState ==
    /\ pc = "update"
    /\ update_state
    /\ pc' = "dispatch"
    /\ UNCHANGED <<goals, task_queue, completed_tasks, learning_memory, metrics,
                   decision_threshold, is_running, task, next_id, add_seq,
                   last_outcome, events, limit, learned_at, oversight, iter_start, others>>

(***************************************************************************)
(* State handlers.                                                         *)
(***************************************************************************)
MetricValues == [k \in DOMAIN metrics |-> Num(metrics[k])]

\* the loop of plan_next_action over goals[i..]: the goals, the queue, the ids and
\* the add_task stamps it leaves, and whether evaluate_progress raised
RECURSIVE PlanFrom(_, _, _, _, _)
PlanFrom(i, gs, queue, nid, stamp) ==
    IF i > Len(gs)
    THEN [goals |-> gs, queue |-> queue, next_id |-> nid, add_seq |-> stamp,
          raised |-> FALSE]
    ELSE IF gs[i].completed THEN PlanFrom(i + 1, gs, queue, nid, stamp)
    ELSE LET r == evaluate_progress(gs[i].success_criteria, MetricValues)
         IN  IF r.raised
             THEN [goals |-> gs, queue |-> queue, next_id |-> nid, add_seq |-> stamp,
                   raised |-> TRUE]
             ELSE LET g2 == [gs EXCEPT ![i].progress = r.value]
                  IN  IF r.value[1] < r.value[2]
                      THEN LET new_tasks == decompose_goal(gs[i], nid + 1)
                           IN  PlanFrom(i + 1, g2, AddAll(queue, new_tasks, stamp),
                                        nid + Len(new_tasks), stamp + Len(new_tasks))
                      ELSE PlanFrom(i + 1, g2, queue, nid, stamp)

plan_next_action ==
    LET r == PlanFrom(1, goals, task_queue, next_id, add_seq)
    IN  /\ state' = "PLANNING"
        /\ goals' = r.goals
        /\ task_queue' = r.queue
        /\ next_id' = r.next_id
        /\ add_seq' = r.add_seq
        /\ r.next_id <= MaxIds
        /\ pc' = IF r.raised THEN "except" ELSE "metrics"
        /\ UNCHANGED <<completed_tasks, learning_memory, metrics, decision_threshold,
                       task, last_outcome, learned_at>>

\* an execute_planning that turns to the collaborators when there is no task
execute_planning_Collaborates ==
    /\ state' = IF task_queue # <<>> THEN "EXECUTING" ELSE "COLLABORATING"
    /\ pc' = "metrics"
    /\ UNCHANGED <<goals, task_queue, completed_tasks, learning_memory, metrics,
                   decision_threshold, task, next_id, add_seq, last_outcome, learned_at>>

execute_planning ==
    /\ state' = IF task_queue # <<>> THEN "EXECUTING" ELSE "IDLE"
    /\ pc' = "metrics"
    /\ UNCHANGED <<goals, task_queue, completed_tasks, learning_memory, metrics,
                   decision_threshold, task, next_id, add_seq, last_outcome, learned_at>>

\* an execute_tasks that leaves the state alone when it finds the queue empty
execute_tasks_StaysExecuting ==
    IF task_queue = <<>>
    THEN /\ pc' = "metrics"
         /\ UNCHANGED <<state, goals, task_queue, completed_tasks, learning_memory,
                        metrics, decision_threshold, task, next_id, add_seq,
                        last_outcome, learned_at>>
    ELSE /\ task' = Some([Head(task_queue) EXCEPT !.execs = @ + 1])
         /\ task_queue' = Tail(task_queue)
         /\ pc' = "inflight"
         /\ UNCHANGED <<state, goals, completed_tasks, learning_memory, metrics,
                        decision_threshold, next_id, add_seq, last_outcome, learned_at>>

\* execute_tasks up to the await of execute_single_task: lines 288-296
execute_tasks ==
    IF task_queue = <<>>
    THEN /\ state' = "IDLE"
         /\ pc' = "metrics"
         /\ UNCHANGED <<goals, task_queue, completed_tasks, learning_memory, metrics,
                        decision_threshold, task, next_id, add_seq,
                        last_outcome, learned_at>>
    ELSE /\ task' = Some([Head(task_queue) EXCEPT !.execs = @ + 1])
         /\ task_queue' = Tail(task_queue)
         /\ pc' = "inflight"
         /\ UNCHANGED <<state, goals, completed_tasks, learning_memory, metrics,
                        decision_threshold, next_id, add_seq, last_outcome, learned_at>>

\* error.split(":")[0]
RECURSIVE ErrorType(_)
ErrorType(msg) ==
    IF msg = <<>> \/ Head(msg) = ":" THEN <<>>
    ELSE <<Head(msg)>> \o ErrorType(Tail(msg))

SetKey(m, key, value) ==
    [k \in DOMAIN m \cup {key} |-> IF k = key THEN value ELSE m[k]]

SuccessRate(done) ==
    <<Cardinality({i \in 1..Len(done) : ~Truthy(done[i].error)}), Len(done)>>

CommonErrors(done) ==
    LET types == {ErrorType(done[i].error[1]) : i \in {j \in 1..Len(done) : Truthy(done[j].error)}}
    IN  [ty \in types |->
            Cardinality({i \in 1..Len(done) :
                            Truthy(done[i].error) /\ ErrorType(done[i].error[1]) = ty})]

AdjustThreshold(rate, threshold) ==
    IF FracLess(rate, <<4, 5>>)
    THEN FracMul(threshold, <<9, 10>>)
    ELSE FracMin(<<19, 20>>, FracMul(threshold, <<21, 20>>))

learn_from_experience ==
    LET success_rate == SuccessRate(completed_tasks)
    IN  /\ learning_memory' =
              SetKey(SetKey(learning_memory, "success_rate", Frac(success_rate[1], success_rate[2])),
                     "common_errors", CommonErrors(completed_tasks))
        /\ decision_threshold' = AdjustThreshold(success_rate, decision_threshold)
        /\ state' = "IDLE"
        /\ learned_at' = Len(completed_tasks)
        /\ pc' = "metrics"
        /\ UNCHANGED <<goals, task_queue, completed_tasks, metrics, task, next_id,
                       add_seq, last_outcome>>

\* collaborate_with_agents with no collaborators, and the states that have no
\* handler (PAUSED, INITIALIZING): nothing changes
collaborate_with_agents ==
    /\ pc' = "metrics"
    /\ UNCHANGED <<state, goals, task_queue, completed_tasks, learning_memory, metrics,
                   decision_threshold, task, next_id, add_seq, last_outcome, learned_at>>

\* lines 192-205
Dispatch ==
    /\ pc = "dispatch"
    /\ IF state = "IDLE" THEN plan_next_action
       ELSE IF state = "PLANNING" THEN execute_planning
       ELSE IF state = "EXECUTING" THEN execute_tasks
       ELSE IF state = "LEARNING" THEN learn_from_experience
       ELSE collaborate_with_agents
    /\ UNCHANGED <<is_running, events, limit, oversight, iter_start, others>>

\* a success that leaves the counter of completed tasks alone
on_success_NotCounted(t) ==
    /\ completed_tasks' =
          Append(completed_tasks, [t EXCEPT !.result = Some("completed"), !.completed = TRUE])
    /\ UNCHANGED <<metrics, task_queue, add_seq>>
    /\ last_outcome' = "success"

\* lines 297-300: the handler returned
on_success(t) ==
    /\ completed_tasks' =
          Append(completed_tasks, [t EXCEPT !.result = Some("completed"), !.completed = TRUE])
    /\ metrics' = [metrics EXCEPT !.tasks_completed = @ + 1]
    /\ UNCHANGED <<task_queue, add_seq>>
    /\ last_outcome' = "success"

\* a failure that drops the tasks that were queued
on_failure_DropsQueue(t, msg) ==
    LET failed == [t EXCEPT !.error = Some(msg), !.retry_count = @ + 1]
    IN  /\ task_queue' = <<failed>>
        /\ add_seq' = add_seq + 1
        /\ last_outcome' = "requeued"
        /\ UNCHANGED <<completed_tasks, metrics>>

\* a failure that files the exhausted task and queues it again as well
on_failure_RequeuesExhausted(t, msg) ==
    LET failed == [t EXCEPT !.error = Some(msg), !.retry_count = @ + 1]
    IN  /\ task_queue' = add_task(task_queue, failed, add_seq + 1)
        /\ add_seq' = add_seq + 1
        /\ IF failed.retry_count < failed.max_retries
           THEN /\ last_outcome' = "requeued"
                /\ UNCHANGED <<completed_tasks, metrics>>
           ELSE /\ completed_tasks' = Append(completed_tasks, failed)
                /\ last_outcome' = "exhausted"
                /\ UNCHANGED metrics

\* lines 304-314: the handler raised an Exception whose str() is msg
on_failure(t, msg) ==
    LET failed == [t EXCEPT !.error = Some(msg), !.retry_count = @ + 1]
    IN  IF failed.retry_count < failed.max_retries
        THEN /\ task_queue' = add_task(task_queue, failed, add_seq + 1)
             /\ add_seq' = add_seq + 1
             /\ last_outcome' = "requeued"
             /\ UNCHANGED <<completed_tasks, metrics>>
        ELSE /\ completed_tasks' = Append(completed_tasks, failed)
             /\ last_outcome' = "exhausted"
             /\ UNCHANGED <<task_queue, add_seq, metrics>>

TaskSucceeds ==
    /\ pc = "inflight"
    /\ on_success(task[1])
    /\ task' = None
    /\ pc' = "metrics"
    /\ UNCHANGED <<state, goals, learning_memory, decision_threshold, is_running,
                   next_id, events, limit, learned_at, oversight, iter_start, others>>

\* the handler raises an Exception whose str() is drawn from Msgs
TaskFailsIn(Msgs) ==
    /\ pc = "inflight"
    /\ \E msg \in Msgs : on_failure(task[1], msg)
    /\ task' = None
    /\ pc' = "metrics"
    /\ UNCHANGED <<state, goals, learning_memory, decision_threshold, is_running,
                   next_id, events, limit, learned_at, oversight, iter_start, others>>

TaskFails == TaskFailsIn(ErrorMessages)

\* SpecQueue: one error message
TaskFailsQ == TaskFailsIn({ <<"E", ":", "x">> })

calculate_value_generated ==
    metrics.tasks_completed * 100 + metrics.goals_achieved * 1000

\* update_metrics, then the loop reaches asyncio.sleep(1)
UpdateMetrics ==
    /\ pc = "metrics"
    /\ metrics' = [metrics EXCEPT !.value_generated = calculate_value_generated]
    /\ pc' = "sleep"
    /\ UNCHANGED <<state, goals, task_queue, completed_tasks, learning_memory,
                   decision_threshold, is_running, task, next_id, add_seq,
                   last_outcome, events, limit, learned_at, oversight, iter_start, others>>

\* a step of the try block raises (a non-numeric max_autonomous_days of the config
\* at line 224, an overridden handler or metric of a subclass, ...)
RaiseInLoop ==
    /\ pc \in {"oversight", "update", "dispatch", "metrics"}
    /\ events < limit
    /\ events' = events + 1
    /\ pc' = "except"
    /\ UNCHANGED <<state, goals, task_queue, completed_tasks, learning_memory, metrics,
                   decision_threshold, is_running, task, next_id, add_seq,
                   last_outcome, limit, learned_at, oversight, iter_start, others>>

\* a recovery that leaves the queue as it is
recover_from_error_KeepsQueue ==
    /\ metrics' = [metrics EXCEPT !.errors_recovered = @ + 1]
    /\ UNCHANGED task_queue
    /\ state' = "IDLE"
    /\ learning_memory' =
          SetKey(SetKey(learning_memory, "last_error", "error"), "error_timestamp", "now")

recover_from_error ==
    /\ metrics' = [metrics EXCEPT !.errors_recovered = @ + 1]
    /\ task_queue' = <<>>
    /\ state' = "IDLE"
    /\ learning_memory' =
          SetKey(SetKey(learning_memory, "last_error", "error"), "error_timestamp", "now")

\* an except clause that recovers and then leaves the loop
ExceptHandler_LeavesLoop ==
    /\ pc = "except"
    /\ recover_from_error
    /\ pc' = "exited"
    /\ UNCHANGED <<goals, completed_tasks, decision_threshold, is_running, task,
                   next_id, add_seq, last_outcome, events, limit, learned_at, oversight,
                   iter_start, others>>

\* lines 213-216: state = ERROR, then recovery; the loop goes on without sleeping
ExceptHandler ==
    /\ pc = "except"
    /\ recover_from_error
    /\ pc' = "top"
    /\ UNCHANGED <<goals, completed_tasks, decision_threshold, is_running, task,
                   next_id, add_seq, last_outcome, events, limit, learned_at, oversight, iter_start, others>>

Next ==
    \/ deploy_agent
    \/ AddTask
    \/ SetGoal
    \/ Shutdown
    \/ RunStart
    \/ LoopTop
    \/ Oversight
    \/ UpdateState
    \/ Dispatch
    \/ TaskSucceeds
    \/ TaskFails
    \/ UpdateMetrics
    \/ RaiseInLoop
    \/ ExceptHandler

Spec == Init /\ [][Next]_vars

NextQueue ==
    \/ deploy_agent
    \/ AddTaskQ
    \/ RunStart
    \/ LoopTop
    \/ OversightNotDue
    \/ UpdateState
    \/ Dispatch
    \/ TaskSucceeds
    \/ TaskFailsQ
    \/ UpdateMetrics

InitQueue == InitFresh /\ limit = MaxQueueEvents /\ AgentOnly

SpecQueue == InitQueue /\ [][NextQueue]_vars

\* SpecLive: the agent of Spec with no loop-level failure, no oversight request
\* and no shutdown.  The event loop runs every coroutine that is ready, and the
\* handlers of the tasks terminate (by returning or by raising).
NextLive ==
    \/ deploy_agent
    \/ AddTask
    \/ RunStart
    \/ LoopTop
    \/ OversightNotDue
    \/ UpdateState
    \/ Dispatch
    \/ TaskSucceeds
    \/ TaskFails
    \/ UpdateMetrics

FairLoop ==
    /\ WF_vars(RunStart)
    /\ WF_vars(LoopTop)
    /\ WF_vars(OversightNotDue)
    /\ WF_vars(UpdateState)
    /\ WF_vars(Dispatch)
    /\ WF_vars(TaskSucceeds \/ TaskFails)
    /\ WF_vars(UpdateMetrics)

SpecLive == Init /\ [][NextLive]_vars /\ FairLoop

\* SpecLearn: an agent asleep between two iterations whose first InitCompleted
\* tasks are done, some of them failed at their only try (max_retries = 1)
FailedTask(i) ==
    [AgentTask(i - InitCompleted, NoGoal, "custom", NORMAL, NoTime, 1)
        EXCEPT !.error = Some(<<"E", ":", "x">>), !.retry_count = 1, !.execs = 1,
               !.seq = i]

InitLearn ==
    /\ \E failed \in {0, MaxInitFailed} :
          /\ completed_tasks = [i \in 1..InitCompleted |->
                                   IF i <= failed THEN FailedTask(i) ELSE DoneTask(i)]
          /\ metrics = [tasks_completed |-> InitCompleted - failed, goals_achieved |-> 0,
                        decisions_made |-> 0, errors_recovered |-> 0,
                        value_generated |-> (InitCompleted - failed) * 100]
    /\ state = "IDLE"
    /\ goals = <<>>
    /\ task_queue = <<>>
    /\ learning_memory = NoMemory
    /\ decision_threshold \in ThresholdsIn
    /\ is_running = TRUE
    /\ pc = "sleep"
    /\ task = None
    /\ next_id = 0
    /\ add_seq = InitCompleted
    /\ last_outcome = "none"
    /\ learned_at = 0
    /\ oversight = None
    /\ iter_start = None
    /\ events = 0
    /\ limit = MaxLearnEvents
    /\ AgentOnly

\* the dispatch of the loop, followed while decision_threshold is above 1/MaxShrink
DispatchLearn ==
    /\ state = "LEARNING" => FracLess(<<1, MaxShrink>>, decision_threshold)
    /\ Dispatch

NextLearn ==
    \/ AddTask
    \/ LoopTop
    \/ OversightNotDue
    \/ UpdateState
    \/ DispatchLearn
    \/ TaskSucceeds
    \/ TaskFails
    \/ UpdateMetrics

SpecLearn == InitLearn /\ [][NextLearn]_vars

\* SpecOversight: an agent of a subclass that sets last_decision_confidence and
\* tracks metrics["error_rate"]: below, at and above decision_threshold (0.8),
\* and below, at and above 0.1
Confidences == { None, Some(<<3, 4>>), Some(<<4, 5>>), Some(<<9, 10>>) }
ErrorRates == { <<0, 1>>, <<1, 10>>, <<1, 5>> }

OversightChecked ==
    OversightIn({DefaultMaxAutonomousDays, DefaultMaxAutonomousDays + 1}
                \X Confidences \X ErrorRates)

NextOversight ==
    \/ deploy_agent
    \/ AddTask
    \/ RunStart
    \/ LoopTop
    \/ OversightChecked
    \/ UpdateState
    \/ Dispatch
    \/ TaskSucceeds
    \/ UpdateMetrics

InitOversight == InitFresh /\ limit = MaxOversightEvents /\ AgentOnly

SpecOversight == InitOversight /\ [][NextOversight]_vars

NextGoal ==
    \/ deploy_agent
    \/ AddTaskG
    \/ SetGoalG
    \/ RunStart
    \/ LoopTop
    \/ OversightNotDue
    \/ UpdateState
    \/ Dispatch
    \/ TaskSucceeds
    \/ UpdateMetrics

InitGoal == InitFresh /\ limit = MaxGoalEvents /\ AgentOnly

SpecGoal == InitGoal /\ [][NextGoal]_vars

(***************************************************************************)
(* A caller evaluates a goal against a metrics mapping of its own.         *)
(***************************************************************************)
PartialMaps(K, V) == UNION { [S -> V] : S \in SUBSET K }

CriterionKeys == {"a", "b"}
Targets == { Num(1), Num(MaxMetric), Str(1) }
MetricsIn == { Num(v) : v \in 0..MaxMetric } \cup { Str(1), Str(2) }

InitProgress ==
    /\ InitFresh /\ limit = 0
    /\ NoKnowledge /\ NoFleet
    /\ ep_goal \in { AgentGoal(1, <<>>, c) : c \in PartialMaps(CriterionKeys, Targets) }
    /\ ep_metrics \in PartialMaps(CriterionKeys, MetricsIn)
    /\ ep_result = None

\* goal.evaluate_progress(metrics)
EvaluateProgress ==
    /\ ep_result = None
    /\ ep_result' = Some(evaluate_progress(ep_goal.success_criteria, ep_metrics))
    /\ UNCHANGED <<ep_goal, ep_metrics, agentVars, knowledgeVars, fleetVars>>

NextProgress ==
    \/ EvaluateProgress

SpecProgress == InitProgress /\ [][NextProgress]_vars

(***************************************************************************)
(* Several agents that are collaborators of one another.  receive_knowledge *)
(* has no suspension point: a call runs from its first line to its last    *)
(* before any other coroutine, so calls interleave as whole calls.         *)
(***************************************************************************)
Collaborators == {"a1", "a2", "a3"}
KnowledgeKeys == {"a", "b"}
KnowledgeValues == 1..MaxValue

\* a merge that overwrites the keys the receiver already has (dict.update)
RECURSIVE receive_knowledge_Overwrites(_, _, _)
receive_knowledge_Overwrites(memory, knowledge, keys) ==
    IF keys = {} THEN memory
    ELSE LET key == CHOOSE k \in keys : TRUE
         IN  receive_knowledge_Overwrites(SetKey(memory, key, knowledge[key]),
                                          knowledge, keys \ {key})

\* lines 360-362: for key, value in knowledge.items(), over the keys still to visit
RECURSIVE receive_knowledge(_, _, _)
receive_knowledge(memory, knowledge, keys) ==
    IF keys = {} THEN memory
    ELSE LET key == CHOOSE k \in keys : TRUE
             merged == IF key \notin DOMAIN memory
                       THEN SetKey(memory, key, knowledge[key])
                       ELSE memory
         IN  receive_knowledge(merged, knowledge, keys \ {key})

InitKnowledge ==
    /\ InitFresh /\ limit = 0
    /\ NoProgress /\ NoFleet
    /\ memories \in [Collaborators -> PartialMaps(KnowledgeKeys, KnowledgeValues)]
    /\ received = None

\* line 355 in the sender: await agent.receive_knowledge(self.learning_memory)
ReceiveKnowledge ==
    \E receiver \in Collaborators, sender \in Collaborators :
        /\ memories' = [memories EXCEPT ![receiver] =
              receive_knowledge(@, memories[sender], DOMAIN memories[sender])]
        /\ received' = Some([receiver |-> receiver, sender |-> sender,
                             before |-> memories[receiver],
                             knowledge |-> memories[sender],
                             earlier |-> IF received # None /\ received[1].receiver = receiver
                                         THEN received[1].earlier \cup {received[1].sender}
                                         ELSE {}])
        /\ UNCHANGED <<agentVars, progressVars, fleetVars>>

NextKnowledge ==
    \/ ReceiveKnowledge

SpecKnowledge == InitKnowledge /\ [][NextKnowledge]_vars

(***************************************************************************)
(* AgentOrchestrator.  fleet is the heap of AutonomousAgent objects in the *)
(* order of their construction; the registry and the pools hold indices    *)
(* into it.  No orchestrator operation has a suspension point of its own   *)
(* (initialize, shutdown and save_state never yield), so each is one step. *)
(***************************************************************************)
AgentTypes == {"A", "B"}
Digit == <<"0", "1", "2", "3", "4", "5", "6", "7", "8", "9">>

\* f"{agent_type}_{i:03d}" for 0 <= i < 1000
FormatAgentId(agent_type, i) ==
    <<agent_type, "_", Digit[((i \div 100) % 10) + 1], Digit[((i \div 10) % 10) + 1],
      Digit[(i % 10) + 1]>>

\* shut and removed are history fields: shutdown has been applied to the agent,
\* and a scale-down has popped it from its pool
AutonomousAgent(agent_id, agent_type) ==
    [agent_id |-> agent_id, agent_type |-> agent_type, state |-> "INITIALIZING",
     is_running |-> FALSE, pc |-> "new", shut |-> FALSE, removed |-> FALSE]

\* the configurations a caller passes: a dict, or None
Configs == {"dict", "None"}

\* initialize: line 122 stores the config, line 123 calls config.get, which
\* raises AttributeError for None; line 127 is reached only for a dict
agent_initialize(agent, config) ==
    IF config = "None"
    THEN [agent |-> agent, raised |-> TRUE]
    ELSE [agent |-> [agent EXCEPT !.state = "IDLE"], raised |-> FALSE]

\* shutdown of one agent
agent_shutdown(agent) == [agent EXCEPT !.is_running = FALSE, !.shut = TRUE]

Orchestrator == [fleet |-> fleet, agents |-> agents, agent_pools |-> agent_pools]

\* a deploy_agent that registers, pools and starts the agent whatever initialize did
orchestrator_deploy_agent_RegistersFirst(o, agent, config) ==
    LET obj == Len(o.fleet) + 1
        pool == IF agent.agent_type \in DOMAIN o.agent_pools
                THEN o.agent_pools[agent.agent_type] ELSE <<>>
        init == agent_initialize(agent, config)
    IN  [o |-> [fleet |-> Append(o.fleet, [init.agent EXCEPT !.pc = "scheduled"]),
                agents |-> SetKey(o.agents, agent.agent_id, obj),
                agent_pools |-> SetKey(o.agent_pools, agent.agent_type,
                                       Append(pool, obj))],
         raised |-> init.raised]

\* deploy_agent of the orchestrator o for a newly constructed agent: the agent
\* is initialized first, and an exception of initialize leaves deploy_agent there
orchestrator_deploy_agent(o, agent, config) ==
    LET obj == Len(o.fleet) + 1
        pool == IF agent.agent_type \in DOMAIN o.agent_pools
                THEN o.agent_pools[agent.agent_type] ELSE <<>>
        init == agent_initialize(agent, config)
    IN  IF init.raised
        THEN [o |-> [o EXCEPT !.fleet = Append(@, init.agent)], raised |-> TRUE]
        ELSE [o |-> [fleet |-> Append(o.fleet, [init.agent EXCEPT !.pc = "scheduled"]),
                     agents |-> SetKey(o.agents, agent.agent_id, obj),
                     agent_pools |-> SetKey(o.agent_pools, agent.agent_type,
                                            Append(pool, obj))],
              raised |-> FALSE]

\* for i in range(count), from index i on
RECURSIVE deploy_agent_fleet(_, _, _, _)
deploy_agent_fleet(o, agent_type, i, count) ==
    IF i >= count THEN o
    ELSE deploy_agent_fleet(
             orchestrator_deploy_agent(
                 o, AutonomousAgent(FormatAgentId(agent_type, i), agent_type), "dict").o,
             agent_type, i + 1, count)

RemoveKey(m, key) == [k \in DOMAIN m \ {key} |-> m[k]]

\* the scale-down loop, agents_to_remove iterations left; del raises KeyError
\* when the id of the popped agent is not in the registry
RECURSIVE scale_down(_, _, _)
scale_down(o, agent_type, agents_to_remove) ==
    IF agents_to_remove = 0 THEN [o |-> o, raised |-> FALSE]
    ELSE LET pool == o.agent_pools[agent_type]
             obj == pool[Len(pool)]
             popped == [o EXCEPT !.agent_pools[agent_type] = SubSeq(pool, 1, Len(pool) - 1),
                                 !.fleet[obj] = [agent_shutdown(@) EXCEPT !.removed = TRUE]]
             agent_id == o.fleet[obj].agent_id
         IN  IF agent_id \notin DOMAIN o.agents
             THEN [o |-> popped, raised |-> TRUE]
             ELSE scale_down([popped EXCEPT !.agents = RemoveKey(@, agent_id)],
                             agent_type, agents_to_remove - 1)

scale_fleet(o, agent_type, target_count) ==
    LET current_count == IF agent_type \in DOMAIN o.agent_pools
                         THEN Len(o.agent_pools[agent_type]) ELSE 0
    IN  IF target_count > current_count
        THEN [o |-> deploy_agent_fleet(o, agent_type, 0, target_count - current_count),
              raised |-> FALSE]
        ELSE IF target_count < current_count
             THEN scale_down(o, agent_type, current_count - target_count)
             ELSE [o |-> o, raised |-> FALSE]

\* shutdown of every registered agent, then both mappings cleared
shutdown_all_agents(o) ==
    LET registered == { o.agents[id] : id \in DOMAIN o.agents }
    IN  [fleet |-> [obj \in 1..Len(o.fleet) |->
                       IF obj \in registered
                       THEN agent_shutdown(o.fleet[obj])
                       ELSE o.fleet[obj]],
         agents |-> NoMemory,
         agent_pools |-> NoMemory]

InitFleet ==
    /\ InitFresh /\ limit = 0
    /\ NoProgress /\ NoKnowledge
    /\ NoFleet

SetOrchestrator(o) ==
    /\ fleet' = o.fleet
    /\ agents' = o.agents
    /\ agent_pools' = o.agent_pools

DeployAgentFleet ==
    \E agent_type \in AgentTypes, count \in 1..MaxTarget :
        /\ Len(fleet) + count <= MaxConstructed
        /\ SetOrchestrator(deploy_agent_fleet(Orchestrator, agent_type, 0, count))
        /\ last_scale' = None
        /\ last_deploy' = None
        /\ UNCHANGED <<agentVars, progressVars, knowledgeVars>>

ScaleFleet ==
    \E agent_type \in AgentTypes, target_count \in 0..MaxTarget :
        LET r == scale_fleet(Orchestrator, agent_type, target_count)
        IN  /\ Len(r.o.fleet) <= MaxConstructed
            /\ SetOrchestrator(r.o)
            /\ last_scale' = Some([agent_type |-> agent_type, target_count |-> target_count,
                                   raised |-> r.raised])
            /\ last_deploy' = None
            /\ UNCHANGED <<agentVars, progressVars, knowledgeVars>>

ShutdownAllAgents ==
    /\ fleet # <<>>
    /\ SetOrchestrator(shutdown_all_agents(Orchestrator))
    /\ last_scale' = None
    /\ last_deploy' = None
    /\ UNCHANGED <<agentVars, progressVars, knowledgeVars>>

\* a caller's await orchestrator.deploy_agent(agent, config) for an agent it has
\* constructed, under an id of its own that no other agent has
DeployAgentIn(max) ==
    \E agent_type \in AgentTypes, config \in Configs :
        LET r == orchestrator_deploy_agent(
                     Orchestrator,
                     AutonomousAgent(<<agent_type, "_", "c", Digit[Len(fleet) + 2]>>,
                                     agent_type), config)
        IN  /\ Len(fleet) < max
            /\ SetOrchestrator(r.o)
            /\ last_deploy' = Some([obj |-> Len(fleet) + 1, raised |-> r.raised])
            /\ last_scale' = None
            /\ UNCHANGED <<agentVars, progressVars, knowledgeVars>>

DeployAgent == DeployAgentIn(MaxDeployed)

\* a caller's await agent.shutdown() on an agent it holds
AgentShutdown ==
    \E obj \in 1..Len(fleet) :
        /\ fleet' = [fleet EXCEPT ![obj] = agent_shutdown(@)]
        /\ UNCHANGED <<agents, agent_pools, last_scale, last_deploy, agentVars,
                       progressVars, knowledgeVars>>

\* the task created at line 464 starts: run sets is_running at line 179
FleetRunStart ==
    \E obj \in 1..Len(fleet) :
        /\ fleet[obj].pc = "scheduled"
        /\ fleet' = [fleet EXCEPT ![obj].pc = "running", ![obj].is_running = TRUE]
        /\ UNCHANGED <<agents, agent_pools, last_scale, last_deploy, agentVars, progressVars,
                       knowledgeVars>>

\* line 181: the loop condition is false and run returns
FleetRunExit ==
    \E obj \in 1..Len(fleet) :
        /\ fleet[obj].pc = "running"
        /\ ~fleet[obj].is_running
        /\ fleet' = [fleet EXCEPT ![obj].pc = "exited"]
        /\ UNCHANGED <<agents, agent_pools, last_scale, last_deploy, agentVars, progressVars,
                       knowledgeVars>>

NextFleet ==
    \/ DeployAgentFleet
    \/ AgentShutdown
    \/ ScaleFleet
    \/ ShutdownAllAgents
    \/ FleetRunStart
    \/ FleetRunExit

SpecFleet == InitFleet /\ [][NextFleet]_vars

\* callers that deploy and shut down single agents
NextDeploy ==
    \/ DeployAgent
    \/ AgentShutdown
    \/ FleetRunStart
    \/ FleetRunExit

SpecDeploy == InitFleet /\ [][NextDeploy]_vars

(***************************************************************************)
(* Claims about the task lifecycle.                                        *)
(***************************************************************************)
InQueue(id) == \E i \in 1..Len(task_queue) : task_queue[i].id = id
TimesCompleted(id) == Cardinality({i \in 1..Len(completed_tasks) : completed_tasks[i].id = id})

\* C1: a task whose handler failed at every execution (it is in completed_tasks
\* without the completed flag) was executed exactly max_retries times, is in
\* completed_tasks exactly once with its error set, and is not in the queue --
\* for every retry budget.
C1_ExhaustedAfterMaxRetries ==
    \A i \in 1..Len(completed_tasks) :
        LET t == completed_tasks[i]
        IN  ~t.completed =>
                /\ t.execs = t.max_retries
                /\ t.error # None
                /\ TimesCompleted(t.id) = 1
                /\ ~InQueue(t.id)

\* C2: every task of the agent, queued, in flight or completed, has
\* retry_count <= max_retries.
C2_RetryWithinBudget ==
    /\ \A i \in 1..Len(task_queue) : task_queue[i].retry_count <= task_queue[i].max_retries
    /\ \A i \in 1..Len(task) : task[i].retry_count <= task[i].max_retries
    /\ \A i \in 1..Len(completed_tasks) :
          completed_tasks[i].retry_count <= completed_tasks[i].max_retries

\* C3: every task in completed_tasks is a success (completed, result set, error
\* unset) or failed-exhausted (not completed, error set, retry_count = max_retries).
C3_TerminalForms ==
    \A i \in 1..Len(completed_tasks) :
        LET t == completed_tasks[i]
        IN  \/ t.completed /\ t.result # None /\ t.error = None
            \/ ~t.completed /\ t.error # None /\ t.retry_count = t.max_retries

(***************************************************************************)
(* Claims about the order of the queue.                                    *)
(***************************************************************************)
\* a is due strictly before b: smaller priority value, or the same priority and
\* an earlier scheduled time, a task without a scheduled time being last
DueBefore(a, b) ==
    \/ a.priority < b.priority
    \/ /\ a.priority = b.priority
       /\ a.scheduled_time # NoTime
       /\ b.scheduled_time = NoTime \/ a.scheduled_time < b.scheduled_time

QueueInOrder ==
    \A i, j \in 1..Len(task_queue) :
        i < j => /\ ~DueBefore(task_queue[j], task_queue[i])
                 /\ ~DueBefore(task_queue[i], task_queue[j])
                       => task_queue[i].seq < task_queue[j].seq

\* added in the order LOW, CRITICAL, NORMAL, the queue is CRITICAL, NORMAL, LOW
QueueExample ==
    \A l, c, n \in 1..Len(task_queue) :
        /\ Len(task_queue) = 3
        /\ task_queue[l].priority = LOW
        /\ task_queue[c].priority = CRITICAL
        /\ task_queue[n].priority = NORMAL
        /\ task_queue[l].seq < task_queue[c].seq
        /\ task_queue[c].seq < task_queue[n].seq
        => <<c, n, l>> = <<1, 2, 3>>

DequeuesHead ==
    (task = None /\ task' # None) =>
        /\ task_queue # <<>>
        /\ [task'[1] EXCEPT !.execs = Head(task_queue).execs] = Head(task_queue)
        /\ task_queue' = Tail(task_queue)

\* C4: after every add the queue is in ascending priority value, then ascending
\* scheduled time with unscheduled tasks last, tasks of equal key in insertion
\* order; the task dequeued for execution is the head of the queue.
C4_QueueByPriorityThenTime ==
    /\ [](QueueInOrder /\ QueueExample)
    /\ [][DequeuesHead]_vars

\* LOW, CRITICAL, NORMAL were added in that order and the head, the CRITICAL
\* task, is in flight
C4_Witness ==
    /\ pc = "inflight"
    /\ task # None
    /\ task[1].priority = CRITICAL
    /\ task[1].seq = 2
    /\ Len(task_queue) = 2
    /\ task_queue[1].priority = NORMAL /\ task_queue[1].seq = 3
    /\ task_queue[2].priority = LOW /\ task_queue[2].seq = 1

(***************************************************************************)
(* Claims about goals.                                                     *)
(***************************************************************************)
AddedTasks(old, new) ==
    SelectSeq(new, LAMBDA x : \A i \in 1..Len(old) : old[i].id # x.id)

KeptTasks(old, new) ==
    SelectSeq(new, LAMBDA x : \E i \in 1..Len(old) : old[i].id = x.id)

Shape(s) == [i \in 1..Len(s) |-> <<s[i].action, s[i].priority, s[i].goal_id>>]

\* the descriptions that contain "optimize" in some letter case
OptimizeDescriptions ==
    { <<"O", "p", "t", "i", "m", "i", "z", "e">>,
      <<"x", "O", "P", "T", "I", "M", "I", "Z", "E">> }

OptimizationTasks(goal_id) ==
    << <<"analyze_current_state", HIGH, goal_id>>,
       <<"identify_bottlenecks", HIGH, goal_id>>,
       <<"implement_optimizations", NORMAL, goal_id>> >>

\* C5: set_goal appends the goal; when the description contains "optimize" in
\* any letter case it adds exactly the three optimization tasks, bound to the
\* goal's id and queued in that order (they are the whole queue when it was
\* empty), and otherwise it adds no task; queued tasks stay as they were.
C5_SetGoalDecomposes ==
    [][ Len(goals') = Len(goals) + 1 =>
          LET goal == goals'[Len(goals')]
              added == AddedTasks(task_queue, task_queue')
          IN  /\ goals' = Append(goals, goal)
              /\ KeptTasks(task_queue, task_queue') = task_queue
              /\ IF goal.description \in OptimizeDescriptions
                 THEN /\ Shape(added) = OptimizationTasks(goal.id)
                      /\ task_queue = <<>> =>
                            Shape(task_queue') = OptimizationTasks(goal.id)
                 ELSE added = <<>> ]_vars

\* the goal "xOPTIMIZE" was set on a queue holding one task: its three tasks
\* are queued, in order, with the caller's task
C5_Witness ==
    /\ Len(goals) = 1
    /\ goals[1].description = <<"x", "O", "P", "T", "I", "M", "I", "Z", "E">>
    /\ Len(task_queue) = 4
    /\ Shape(SelectSeq(task_queue, LAMBDA x : x.goal_id = goals[1].id))
          = OptimizationTasks(goals[1].id)

(***************************************************************************)
(* Claims about failures.                                                  *)
(***************************************************************************)
\* C8: when the run loop has caught a failure and recovery has run, the queue is
\* empty, errors_recovered is one more, the state is IDLE, learning_memory has
\* last_error and error_timestamp, and completed_tasks and goals are as before.
C8_RecoveryEffects ==
    [][ (pc = "except" /\ pc' # "except") =>
          /\ task_queue' = <<>>
          /\ metrics'.errors_recovered = metrics.errors_recovered + 1
          /\ state' = "IDLE"
          /\ {"last_error", "error_timestamp"} \subseteq DOMAIN learning_memory'
          /\ completed_tasks' = completed_tasks
          /\ goals' = goals ]_vars

\* recovery has run once and dropped the one task the caller had queued
C8_Witness ==
    /\ pc = "top"
    /\ state = "IDLE"
    /\ metrics.errors_recovered = 1
    /\ "last_error" \in DOMAIN learning_memory
    /\ next_id = 1
    /\ goals = <<>>
    /\ task_queue = <<>>
    /\ task = None
    /\ \A i \in 1..Len(completed_tasks) : completed_tasks[i].id # 1

\* C9: when a task's handler raises, the exception stays in execute_tasks: the
\* agent's state is not ERROR, errors_recovered does not change, the tasks that
\* were queued stay queued, and the iteration goes on to update_metrics.
C9_HandlerFailureContained ==
    [][ (pc = "inflight" /\ pc' # "inflight"
            /\ metrics'.tasks_completed = metrics.tasks_completed) =>
          /\ pc' = "metrics"
          /\ state' = state
          /\ state' # "ERROR"
          /\ metrics'.errors_recovered = metrics.errors_recovered
          /\ SelectSeq(task_queue', LAMBDA x : x.id # task[1].id) = task_queue ]_vars

\* a handler has raised while another task was queued: the failed task is back
\* in the queue with the other one and no recovery has run
C9_Witness ==
    /\ pc = "metrics"
    /\ last_outcome = "requeued"
    /\ Len(task_queue) = 2
    /\ metrics.errors_recovered = 0
    /\ state = "EXECUTING"

(***************************************************************************)
(* Claims about evaluate_progress.                                         *)
(***************************************************************************)
\* a criterion is met iff its metric is present and is >= a numeric target or
\* equal to a non-numeric target
CriterionMet(criterion) ==
    /\ criterion \in DOMAIN ep_metrics
    /\ LET target == ep_goal.success_criteria[criterion]
           metric == ep_metrics[criterion]
       IN  IF target.kind = "num"
           THEN metric.kind = "num" /\ metric.v >= target.v
           ELSE metric = target

\* C6: for every goal and every metrics mapping evaluate_progress returns 0 when
\* the goal has no criteria and otherwise (met criteria)/(criteria), in [0,1].
C6_ProgressIsFractionMet ==
    ep_result # None =>
        LET criteria == DOMAIN ep_goal.success_criteria
            met == Cardinality({c \in criteria : CriterionMet(c)})
            value == ep_result[1].value
        IN  /\ ~ep_result[1].raised
            /\ value[2] > 0
            /\ 0 <= value[1] /\ value[1] <= value[2]
            /\ IF criteria = {}
               THEN value[1] = 0
               ELSE value[1] * Cardinality(criteria) = met * value[2]

(***************************************************************************)
(* Claims about receive_knowledge.                                         *)
(***************************************************************************)
MergedWithoutOverwrite ==
    received # None =>
        LET call == received[1]
            after == memories[call.receiver]
        IN  /\ DOMAIN after = DOMAIN call.before \cup DOMAIN call.knowledge
            /\ \A key \in DOMAIN call.before : after[key] = call.before[key]
            /\ \A key \in DOMAIN call.knowledge \ DOMAIN call.before :
                  after[key] = call.knowledge[key]
            /\ memories[call.sender] = call.knowledge
            /\ (call.before = [k \in {"a"} |-> 1]
                  /\ call.knowledge = [k \in {"a", "b"} |-> IF k = "a" THEN 2 ELSE 3])
               => after = [k \in {"a", "b"} |-> IF k = "a" THEN 1 ELSE 3]

KeysKeepTheirValue ==
    \A agent \in DOMAIN memories :
        /\ agent \in DOMAIN memories'
        /\ \A key \in DOMAIN memories[agent] :
              /\ key \in DOMAIN memories'[agent]
              /\ memories'[agent][key] = memories[agent][key]

\* C7: receive_knowledge(k) keeps every key the receiver already has at its
\* value, adds every absent key of k with k's value and leaves k unchanged
\* ({a:1} receiving {a:2,b:3} becomes {a:1,b:3}), whatever the order in which
\* the calls of several collaborators reach a receiver.
C7_ReceiveNeverOverwrites ==
    /\ []MergedWithoutOverwrite
    /\ [][KeysKeepTheirValue]_vars

\* the receiver, {a:1} after the call of one collaborator, has received
\* {a:2,b:3} from another and is {a:1,b:3}
C7_Witness ==
    /\ received # None
    /\ received[1].sender # received[1].receiver
    /\ received[1].before = [k \in {"a"} |-> 1]
    /\ received[1].knowledge = [k \in {"a", "b"} |-> IF k = "a" THEN 2 ELSE 3]
    /\ memories[received[1].receiver] = [k \in {"a", "b"} |-> IF k = "a" THEN 1 ELSE 3]
    /\ \E third \in received[1].earlier \ {received[1].sender, received[1].receiver} :
          memories[third] = [k \in {"a"} |-> 1]

(***************************************************************************)
(* Claims about the orchestrator.                                          *)
(***************************************************************************)
PoolOf(agent_type) ==
    IF agent_type \in DOMAIN agent_pools THEN agent_pools[agent_type] ELSE <<>>

RegisteredOfType(agent_type) ==
    { id \in DOMAIN agents : fleet[agents[id]].agent_type = agent_type }

\* C10: after scale_fleet(type, n) returns, the pool of the type holds exactly n
\* agents and exactly n agents of the type are registered, each under its own
\* id, for scale-up from any pool size and for scale-down.
C10_ScaleFleetExact ==
    last_scale # None =>
        LET call == last_scale[1]
            pool == PoolOf(call.agent_type)
        IN  /\ ~call.raised
            /\ Len(pool) = call.target_count
            /\ Cardinality(RegisteredOfType(call.agent_type)) = call.target_count
            /\ \A i, j \in 1..Len(pool) :
                  i # j => fleet[pool[i]].agent_id # fleet[pool[j]].agent_id
            /\ \A i \in 1..Len(pool) :
                  /\ fleet[pool[i]].agent_id \in DOMAIN agents
                  /\ agents[fleet[pool[i]].agent_id] = pool[i]

\* C11: once shutdown has been applied to an agent its running flag is false in
\* every later state (so its loop starts no iteration and exits), however the
\* shutdown interleaves with the start of the run loop that deploy scheduled.
C11_ShutdownIsTerminal ==
    \A obj \in 1..Len(fleet) : fleet[obj].shut => ~fleet[obj].is_running

\* C12: when shutdown_all_agents returns the registry and the pools are empty
\* and shutdown has been applied to every agent that was deployed and not
\* removed by a scale-down.
C12_ShutdownAllReachesEveryAgent ==
    [][ (agent_pools # NoMemory /\ agent_pools' = NoMemory) =>
          /\ agents' = NoMemory
          /\ \A obj \in 1..Len(fleet) :
                (fleet[obj].pc # "new" /\ ~fleet[obj].removed) => fleet'[obj].shut ]_vars

RegisteredIn(registry, obj) == \E id \in DOMAIN registry : registry[id] = obj

PooledIn(pools, obj) ==
    \E agent_type \in DOMAIN pools :
        \E i \in 1..Len(pools[agent_type]) : pools[agent_type][i] = obj

Registered(obj) == RegisteredIn(agents, obj)
Pooled(obj) == PooledIn(agent_pools, obj)

\* C13: deploy_agent leaves the agent initialized (IDLE), registered under its
\* id, last in the pool of its type and with its run loop scheduled; when
\* initialize raises, the caller gets the exception and the agent is neither
\* registered, nor pooled, nor started.
C13_DeployRegistersInitializedAgents ==
    [][ (last_deploy' # None /\ last_deploy' # last_deploy) =>
          LET obj == last_deploy'[1].obj
              agent == fleet'[obj]
          IN  /\ obj = Len(fleet) + 1
              /\ fleet' = Append(fleet, agent)
              /\ IF last_deploy'[1].raised
                 THEN /\ agent.state = "INITIALIZING"
                      /\ agent.pc = "new"
                      /\ ~agent.is_running
                      /\ agents' = agents
                      /\ agent_pools' = agent_pools
                      /\ ~RegisteredIn(agents', obj) /\ ~PooledIn(agent_pools', obj)
                 ELSE /\ agent.state = "IDLE"
                      /\ agent.agent_id \in DOMAIN agents'
                      /\ agents'[agent.agent_id] = obj
                      /\ agent_pools'[agent.agent_type] =
                            Append(PoolOf(agent.agent_type), obj)
                      /\ agent.pc = "scheduled" ]_vars

\* a second deploy_agent has failed in initialize: its agent is outside the
\* registry and the pools, where the first agent is, already running
C13_Witness ==
    /\ last_deploy = Some([obj |-> 2, raised |-> TRUE])
    /\ Len(fleet) = 2
    /\ fleet[2].state = "INITIALIZING" /\ fleet[2].pc = "new"
    /\ ~Registered(2) /\ ~Pooled(2)
    /\ fleet[1].state = "IDLE" /\ fleet[1].pc = "running"
    /\ Registered(1) /\ Pooled(1)

\* the dispatch of this iteration runs learn_from_experience
LearnStep == pc = "dispatch" /\ state = "LEARNING" /\ pc' = "metrics"

WithoutError(done) == {i \in 1..Len(done) : done[i].error = None}

\* C14: the learning update records success_rate = (completed tasks with no
\* error) / (all completed tasks) in learning_memory, multiplies
\* decision_threshold by 0.9 when success_rate < 0.8 and sets it to
\* min(0.95, threshold * 1.05) otherwise (so 8 tasks without error out of 10 take
\* the increase), and leaves the state IDLE.
C14_LearningUpdate ==
    [][ LearnStep =>
          LET n == Cardinality(WithoutError(completed_tasks))
              d == Len(completed_tasks)
          IN  /\ learning_memory'["success_rate"] = Frac(n, d)
              /\ decision_threshold' =
                    IF 10 * n < 8 * d
                    THEN FracMul(decision_threshold, <<9, 10>>)
                    ELSE FracMin(Frac(95, 100), FracMul(decision_threshold, <<105, 100>>))
              /\ state' = "IDLE" ]_vars

\* C15: the learning update runs once per batch of 10 completed tasks: it runs
\* with the number of completed tasks at a positive multiple of 10, and at least
\* 10 further tasks have entered completed_tasks since the learning update
\* before it, so decision_threshold is adjusted once per batch.
C15_LearnsOncePerBatch ==
    [][ LearnStep =>
          /\ Len(completed_tasks) > 0
          /\ Len(completed_tasks) % LearnEvery = 0
          /\ Len(completed_tasks) >= learned_at + LearnEvery ]_vars

\* C16: the oversight check returns true exactly when more than the maximum
\* autonomous duration has passed since last_human_interaction, or a last
\* decision confidence exists and is below decision_threshold, or the tracked
\* error rate exceeds 0.1; when it returns true the same iteration requests
\* oversight (the state becomes PAUSED), and otherwise it does not.
C16_OversightCheck ==
    [][ (pc = "oversight" /\ pc' = "update") =>
          LET c == oversight'[1]
              due == \/ c.days > DefaultMaxAutonomousDays
                     \/ c.confidence # None /\ FracLess(c.confidence[1], decision_threshold)
                     \/ FracLess(<<1, 10>>, c.error_rate)
          IN  /\ c.requested = due
              /\ due => state' = "PAUSED"
              /\ ~due => state' = state ]_vars

\* within the autonomous window and with an error rate of exactly 0.1, a
\* confidence of 0.75 under the threshold 0.8 has made the loop request oversight
C16_Witness ==
    /\ pc = "update"
    /\ decision_threshold = <<4, 5>>
    /\ oversight = Some([days |-> DefaultMaxAutonomousDays, confidence |-> Some(<<3, 4>>),
                         error_rate |-> <<1, 10>>, requested |-> TRUE])
    /\ state = "PAUSED"

\* C17: when an iteration of the run loop has requested oversight, the state is
\* PAUSED when that iteration reaches its pause, so that get_status shows PAUSED
\* between the iterations, whatever the queue and the goal list hold.
C17_PausedAtThePause ==
    (pc = "sleep" /\ oversight # None /\ oversight[1].requested) => state = "PAUSED"

\* C18: an exception raised by a step of an iteration (oversight check, state
\* re-evaluation, state handler, metric update) is caught by the except clause
\* of the loop, which recovers (ERROR, then the recovery that counts the error
\* and leaves IDLE) and goes back to the test of the loop; the loop is left only
\* at that test, with the running flag false.
C18_FailuresNeverEndTheLoop ==
    [][ /\ (pc' = "except" /\ pc # "except") =>
              pc \in {"oversight", "update", "dispatch", "metrics"}
        /\ pc = "except" =>
              /\ pc' = "top"
              /\ state' = "IDLE"
              /\ metrics'.errors_recovered = metrics.errors_recovered + 1
              /\ is_running' = is_running
        /\ (pc' = "exited" /\ pc # "exited") =>
              pc \in {"top", "sleep"} /\ ~is_running ]_vars

\* the loop has caught two failures and is in its next iteration
C18_Witness ==
    /\ metrics.errors_recovered = 2
    /\ is_running
    /\ pc = "update"

\* C19: every iteration, one that ends in a caught failure and recovery included,
\* reaches the pause before the next iteration starts: an iteration starts after
\* the pause of the one before it, or as the first one of run().  (pc is "top"
\* after the start of run(), where nothing has been recovered yet, and after a
\* recovery.)
C19_PauseBeforeNextIteration ==
    [][ (pc' = "oversight" /\ pc # "oversight") =>
          \/ pc = "sleep"
          \/ pc = "top" /\ metrics.errors_recovered = 0 ]_vars

\* C20: update_state leaves ERROR alone; otherwise it sets PLANNING when the
\* queue is non-empty in state IDLE or the queue is empty with goals in the
\* list; otherwise LEARNING when the number of completed tasks is a positive
\* multiple of 10; otherwise nothing.  No step enters LEARNING with another
\* number of completed tasks.
C20_UpdateStateRule ==
    [][ /\ (pc = "update" /\ pc' = "dispatch") =>
              state' =
                 IF state = "ERROR" THEN "ERROR"
                 ELSE IF \/ task_queue # <<>> /\ state = "IDLE"
                         \/ task_queue = <<>> /\ goals # <<>>
                      THEN "PLANNING"
                 ELSE IF Len(completed_tasks) > 0 /\ Len(completed_tasks) % 10 = 0
                      THEN "LEARNING"
                 ELSE state
        /\ (state' = "LEARNING" /\ state # "LEARNING") =>
              Len(completed_tasks) > 0 /\ Len(completed_tasks) % 10 = 0 ]_vars

\* the tenth task has completed with another one queued: the re-evaluation has
\* left EXECUTING for LEARNING
C20_Witness ==
    /\ pc = "dispatch"
    /\ state = "LEARNING"
    /\ Len(completed_tasks) = 10
    /\ task_queue # <<>>
    /\ learned_at = 0

\* the iteration under way started in EXECUTING with an empty queue: the
\* iteration before it ran execute_tasks and left the queue empty
AfterLastTask ==
    /\ iter_start # None
    /\ iter_start[1].state = "EXECUTING"
    /\ iter_start[1].queued = 0

OneTaskPerIteration ==
    /\ iter_start # None => Dequeues <= iter_start[1].dequeues + 1
    /\ pc = "inflight" => state = "EXECUTING" /\ task # None

PlanningStep ==
    (pc = "dispatch" /\ state = "PLANNING" /\ pc' = "metrics") =>
        state' = IF task_queue # <<>> THEN "EXECUTING" ELSE "IDLE"

DequeueStep ==
    (task_queue' # task_queue /\ Len(task_queue') < Len(task_queue) /\ pc' # "top") =>
        /\ pc = "dispatch" /\ state = "EXECUTING"
        /\ task_queue' = Tail(task_queue)
        /\ pc' = "inflight"

\* C21 as stated, in what it says of states: one task at most per iteration, in
\* flight in EXECUTING only, and the iteration that follows an executing
\* iteration which left the queue empty ends in IDLE.
C21_EmptyQueueReturnsToIdle ==
    /\ OneTaskPerIteration
    /\ (pc = "sleep" /\ AfterLastTask) => state = "IDLE"

\* C21, amended: one task at most per iteration, dequeued in EXECUTING only;
\* PLANNING moves to EXECUTING iff the queue is non-empty and to IDLE otherwise;
\* and the iteration that follows an executing iteration ends in IDLE when it
\* found the queue still empty and did not request oversight.
C21_EmptyQueueReturnsToIdleUnlessPaused ==
    /\ [](OneTaskPerIteration /\
          ((pc = "sleep" /\ AfterLastTask /\ ~oversight[1].requested) => state = "IDLE"))
    /\ [][PlanningStep /\ DequeueStep]_vars

\* the iteration after the one that ran the only task found the queue empty,
\* asked for no oversight and has reached its pause
C21_Witness ==
    /\ pc = "sleep"
    /\ AfterLastTask
    /\ ~oversight[1].requested
    /\ goals = <<>>
    /\ Len(completed_tasks) = 1
    /\ state = "IDLE"

InCompleted(id) == \E i \in 1..Len(completed_tasks) : completed_tasks[i].id = id

\* C22: with a fair event loop, terminating handlers and no loop-level failure,
\* oversight request or shutdown, every task in the queue of a running agent
\* eventually reaches completed_tasks, however many tasks were completed before.
C22_QueuedTasksComplete ==
    \A id \in 1..MaxIds : (is_running /\ InQueue(id)) ~> InCompleted(id)

\* C23: across the learning updates decision_threshold never exceeds
\* max(0.95, its configured value) and never falls below a fixed positive floor
\* (here the floor 1/2; the updates at a success rate below 0.8 multiply the
\* threshold by 0.9 each, so that any other floor is passed as well).
C23_ThresholdStaysBounded ==
    LET initial == CHOOSE t \in ThresholdsIn : TRUE
        ceiling == IF FracLess(initial, Frac(95, 100)) THEN Frac(95, 100) ELSE initial
    IN  /\ ~FracLess(ceiling, decision_threshold)
        /\ ~FracLess(decision_threshold, <<1, 2>>)

\* the tasks the agent holds: queued, in flight, done
HeldTasks == task_queue \o task \o completed_tasks

\* C24: no task is twice in task_queue and completed_tasks taken together
\* (nor there while it is in flight), and a task in completed_tasks is terminal:
\* completed_tasks only grows at its end, its entries never change, and none
\* of them is queued or executed again.
C24_CompletedTasksAreTerminal ==
    /\ [](\A i, j \in 1..Len(HeldTasks) : HeldTasks[i].id = HeldTasks[j].id => i = j)
    /\ [][ /\ Len(completed_tasks') >= Len(completed_tasks)
           /\ SubSeq(completed_tasks', 1, Len(completed_tasks)) = completed_tasks
           /\ \A i \in 1..Len(completed_tasks) :
                 /\ ~InQueue(completed_tasks[i].id)'
                 /\ task' # None => task'[1].id # completed_tasks[i].id ]_vars

\* a task has failed twice and is filed as exhausted, after the success of the
\* task that was queued behind it
C24_Witness ==
    /\ Len(completed_tasks) >= 2
    /\ LET last == completed_tasks[Len(completed_tasks)]
       IN  /\ ~last.completed
           /\ last.retry_count = 2 /\ last.max_retries = 2 /\ last.execs = 2
           /\ completed_tasks[Len(completed_tasks) - 1].completed
           /\ completed_tasks[Len(completed_tasks) - 1].id > last.id
    /\ pc = "sleep"

\* C25: tasks_completed is the number of tasks in completed_tasks whose
\* completed flag is set: a success counts one with its append, and failed
\* tries, exhausted tasks and recoveries leave the counter alone.
C25_CounterMatchesCompletedTasks ==
    metrics.tasks_completed =
        Cardinality({i \in 1..Len(completed_tasks) : completed_tasks[i].completed})

\* after nine successes a task was filed as exhausted and the loop has recovered
\* from a failure: the counter is still nine
C25_Witness ==
    /\ Len(completed_tasks) = InitCompleted + 1
    /\ ~completed_tasks[InitCompleted + 1].completed
    /\ metrics.errors_recovered = 1
    /\ metrics.tasks_completed = InitCompleted

\* a step of a caller or of the orchestrator on the agent: the run loop stays
\* where it is and the agent changes
CallerStep ==
    /\ pc' = pc
    /\ <<goals, task_queue, is_running>>' # <<goals, task_queue, is_running>>

\* C26: the pause of the iteration is the only suspension point of the run
\* loop: the operations of callers (shutdown, set_goal, add_task) take place
\* while the loop is at its pause (or before run() has started, or after it has
\* returned), never in the middle of an iteration with a dequeued task in flight.
C26_CallersRunAtThePauseOnly ==
    [][ CallerStep => pc \in {"new", "scheduled", "sleep", "exited"} ]_vars

\* the number of places the object has in the pools
TimesPooled(obj) ==
    Cardinality({ <<agent_type, i>> \in (DOMAIN agent_pools) \X (1..MaxIds) :
                     i <= Len(agent_pools[agent_type]) /\ agent_pools[agent_type][i] = obj })

RECURSIVE SumOfPools(_)
SumOfPools(types) ==
    IF types = {} THEN 0
    ELSE LET agent_type == CHOOSE t \in types : TRUE
         IN  Len(agent_pools[agent_type]) + SumOfPools(types \ {agent_type})

\* C27: the registry and the pools hold the same agents: a pooled agent is
\* registered under its own id, a registered agent is in one pool, once, and
\* get_fleet_status reports total_agents equal to the sum of agents_by_type.
C27_RegistryMatchesPools ==
    /\ \A obj \in 1..Len(fleet) :
          /\ Pooled(obj) =>
                /\ fleet[obj].agent_id \in DOMAIN agents
                /\ agents[fleet[obj].agent_id] = obj
          /\ Registered(obj) => TimesPooled(obj) = 1
    /\ Cardinality(DOMAIN agents) = SumOfPools(DOMAIN agent_pools)

C29_NeverCollaborating ==
    /\ state \notin {"COLLABORATING", "ERROR"}
    /\ pc # "new" => state # "INITIALIZING"
    /\ pc = "sleep" => state \in {"IDLE", "PLANNING", "EXECUTING", "LEARNING", "PAUSED"}

\* an agent deployed from scratch has recovered from a failure and, with nothing
\* to do, has reached a pause in PLANNING
C29_Witness ==
    /\ pc = "sleep"
    /\ state = "PLANNING"
    /\ metrics.errors_recovered = 1
    /\ completed_tasks = <<>>

\* the task with this id is in the queue or in flight
HeldForExecution(id) == InQueue(id) \/ (task # None /\ task[1].id = id)

\* C30: the run loop never changes a goal: plan_next_action is dispatched only
\* with the queue and the goal list both empty, every goal keeps progress 0 and
\* completed false, goals_achieved stays 0, and no step of the loop puts a task
\* of a goal into the queue that was not there or in flight.
C30_LoopNeverReviewsGoals ==
    /\ [](/\ metrics.goals_achieved = 0
          /\ \A i \in 1..Len(goals) : goals[i].progress = Zero /\ ~goals[i].completed
          /\ (pc = "dispatch" /\ state = "IDLE") => goals = <<>> /\ task_queue = <<>>)
    /\ [][ pc' # pc =>
              /\ goals' = goals
              /\ \A i \in 1..Len(task_queue') :
                    task_queue'[i].goal_id # NoGoal =>
                        HeldForExecution(task_queue'[i].id) ]_vars

\* the queue of an agent with a goal was emptied by a recovery, and the
\* following iterations have left the goal as it was set and the queue empty
C30_Witness ==
    /\ goals # <<>>
    /\ metrics.errors_recovered = 1
    /\ task_queue = <<>>
    /\ pc = "sleep"
    /\ state = "IDLE"
    /\ iter_start # None /\ iter_start[1].state = "PLANNING"

====
